---- MODULE Spec2Model ----
(***************************************************************************)
(* Othello: the rules engine and game controller of src/game.js            *)
(* (class OthelloGame) and the move-selection engine of src/ai.js          *)
(* (class OthelloAI).                                                      *)
(*                                                                         *)
(* A board is a function  row -> (col -> cell)  over 0..7, as the          *)
(* JavaScript array of arrays board[row][col]; a cell is EMPTY, BLACK or   *)
(* WHITE.  A position is the pair <<row, col>>.  A move is the record      *)
(* [row, col, flips] that getValidMoves pushes.                            *)
(***************************************************************************)
EXTENDS Integers, Sequences, FiniteSets, TLC

VARIABLES board, currentPlayer, gameOver, history, difficulty, timers, lastEvent, line

vars == <<board, currentPlayer, gameOver, history, difficulty, timers, lastEvent, line>>

\* ------------------------------------------------------------------------
\* Program constants
\* ------------------------------------------------------------------------
BOARD_SIZE == 8
EMPTY == 0
BLACK == 1
WHITE == 2

\* this.maxDepth of OthelloAI
maxDepth == 4

\* JavaScript's Infinity: the initial bestScore / alpha / beta of the searches.
\* Every score evaluateBoard can return is far inside (-Infinity, Infinity):
\* |score| <= 64*100 + 64*10 + 4*100.
Infinity == 1000000

Rows == 0 .. (BOARD_SIZE - 1)
Cells == {0, 1, 2}
Sides == {BLACK, WHITE}

\* The 8 scan directions, in the order of this.directions of OthelloGame.
directions ==
    << <<-1, 0>>, <<-1, 1>>, <<0, 1>>, <<1, 1>>,
       <<1, 0>>, <<1, -1>>, <<0, -1>>, <<-1, -1>> >>

\* The local directions array of OthelloAI.getFlips.
ai_directions ==
    << <<-1, 0>>, <<-1, 1>>, <<0, 1>>, <<1, 1>>,
       <<1, 0>>, <<1, -1>>, <<0, -1>>, <<-1, -1>> >>

\* The local directions array of OthelloAI.canPlaceStone.
canPlace_directions ==
    << <<-1, 0>>, <<-1, 1>>, <<0, 1>>, <<1, 1>>,
       <<1, 0>>, <<1, -1>>, <<0, -1>>, <<-1, -1>> >>

\* this.positionWeights of OthelloAI; row r, column c is positionWeights[r+1][c+1].
positionWeights ==
    << <<100, -20,  10,   5,   5,  10, -20, 100>>,
       <<-20, -50,  -2,  -2,  -2,  -2, -50, -20>>,
       << 10,  -2,   5,   1,   1,   5,  -2,  10>>,
       <<  5,  -2,   1,   0,   0,   1,  -2,   5>>,
       <<  5,  -2,   1,   0,   0,   1,  -2,   5>>,
       << 10,  -2,   5,   1,   1,   5,  -2,  10>>,
       <<-20, -50,  -2,  -2,  -2,  -2, -50, -20>>,
       <<100, -20,  10,   5,   5,  10, -20, 100>> >>

\* The corners array of evaluateBoard.
corners == << <<0, 0>>, <<0, 7>>, <<7, 0>>, <<7, 7>> >>

\* ------------------------------------------------------------------------
\* Rules engine of OthelloGame (src/game.js)
\* ------------------------------------------------------------------------

\* OthelloGame.isValidPosition
isValidPosition(row, col) ==
    row >= 0 /\ row < BOARD_SIZE /\ col >= 0 /\ col < BOARD_SIZE

\* The while loop of getFlips: from (r, c), step in direction (dr, dc) while the
\* cell is on the board and holds an opponent disc.  The value is temp.length;
\* temp itself holds the cells passed, in the order passed.
RECURSIVE scanRun(_, _, _, _, _, _)
scanRun(b, r, c, dr, dc, opponent) ==
    IF isValidPosition(r, c) /\ b[r][c] = opponent
    THEN 1 + scanRun(b, r + dr, c + dc, dr, dc, opponent)
    ELSE 0

\* A faulty flipsInDirection: it does not look at the cell that ends the run, so
\* a run that stops at an Empty cell or at the edge is flipped too.
flipsInDirectionMutant(b, row, col, player, opponent, d) ==
    LET n == scanRun(b, row + d[1], col + d[2], d[1], d[2], opponent)
    IN  IF n > 0
        THEN [k \in 1 .. n |-> <<row + k * d[1], col + k * d[2]>>]
        ELSE << >>

\* One iteration of the for loop over the directions: the discs direction d adds
\* to flips.  After the while loop (r, c) is n + 1 steps from (row, col), and
\* temp is the n cells in between.
flipsInDirection(b, row, col, player, opponent, d) ==
    LET n == scanRun(b, row + d[1], col + d[2], d[1], d[2], opponent)
        r == row + (n + 1) * d[1]
        c == col + (n + 1) * d[2]
    IN  IF n > 0 /\ isValidPosition(r, c) /\ b[r][c] = player
        THEN [k \in 1 .. n |-> <<row + k * d[1], col + k * d[2]>>]
        ELSE << >>

\* The for loop over this.directions, from direction i on: what it appends to
\* flips, in the order of the directions.
RECURSIVE flipsFrom(_, _, _, _, _, _)
flipsFrom(b, row, col, player, opponent, i) ==
    IF i > Len(directions)
    THEN << >>
    ELSE flipsInDirection(b, row, col, player, opponent, directions[i])
         \o flipsFrom(b, row, col, player, opponent, i + 1)

\* A faulty getFlips: its loop misses the first direction, [-1, 0].
getFlipsMutant(b, row, col, player) ==
    IF b[row][col] # EMPTY
    THEN << >>
    ELSE flipsFrom(b, row, col, player, IF player = BLACK THEN WHITE ELSE BLACK, 2)

\* OthelloGame.getFlips: the sequence of positions a placement would flip.
getFlips(b, row, col, player) ==
    IF b[row][col] # EMPTY
    THEN << >>
    ELSE flipsFrom(b, row, col, player, IF player = BLACK THEN WHITE ELSE BLACK, 1)

\* A faulty validMovesInRow: it does not test flips.length > 0, so every Empty
\* cell becomes a move.
RECURSIVE validMovesInRowMutant(_, _, _, _)
validMovesInRowMutant(b, player, row, col) ==
    IF col >= BOARD_SIZE
    THEN << >>
    ELSE LET flips == IF b[row][col] = EMPTY THEN getFlips(b, row, col, player) ELSE << >>
         IN  (IF b[row][col] = EMPTY
              THEN << [row |-> row, col |-> col, flips |-> Len(flips)] >>
              ELSE << >>) \o validMovesInRowMutant(b, player, row, col + 1)

\* The inner for loop (col) of getValidMoves: the moves of row `row` from
\* column col on, in column order.
RECURSIVE validMovesInRow(_, _, _, _)
validMovesInRow(b, player, row, col) ==
    IF col >= BOARD_SIZE
    THEN << >>
    ELSE LET flips == IF b[row][col] = EMPTY THEN getFlips(b, row, col, player) ELSE << >>
         IN  (IF b[row][col] = EMPTY /\ Len(flips) > 0
              THEN << [row |-> row, col |-> col, flips |-> Len(flips)] >>
              ELSE << >>) \o validMovesInRow(b, player, row, col + 1)

\* The outer for loop (row) of getValidMoves: the moves of the rows from row on.
RECURSIVE validMovesFrom(_, _, _)
validMovesFrom(b, player, row) ==
    IF row >= BOARD_SIZE
    THEN << >>
    ELSE validMovesInRow(b, player, row, 0) \o validMovesFrom(b, player, row + 1)

\* OthelloGame.getValidMoves
getValidMoves(b, player) == validMovesFrom(b, player, 0)

\* A faulty applyFlips: it leaves the last disc of flips unflipped.
RECURSIVE applyFlipsMutant(_, _, _, _)
applyFlipsMutant(b, flips, i, player) ==
    IF i >= Len(flips)
    THEN b
    ELSE applyFlipsMutant([b EXCEPT ![flips[i][1]][flips[i][2]] = player], flips, i + 1, player)

\* The flips.forEach of makeMove / makeTestMove: set every flipped cell to player.
RECURSIVE applyFlips(_, _, _, _)
applyFlips(b, flips, i, player) ==
    IF i > Len(flips)
    THEN b
    ELSE applyFlips([b EXCEPT ![flips[i][1]][flips[i][2]] = player], flips, i + 1, player)

\* A faulty makeMove: it does not test flips.length === 0, so a disc is placed on
\* any Empty cell.
makeMoveMutant(b, row, col, player) ==
    IF b[row][col] # EMPTY
    THEN [ok |-> FALSE, board |-> b]
    ELSE [ok |-> TRUE, board |-> [b EXCEPT ![row][col] = player]]

\* OthelloGame.makeMove: ok is the value returned, board the board afterwards.
makeMove(b, row, col, player) ==
    IF b[row][col] # EMPTY
    THEN [ok |-> FALSE, board |-> b]
    ELSE LET flips == getFlips(b, row, col, player)
         IN  IF Len(flips) = 0
             THEN [ok |-> FALSE, board |-> b]
             ELSE [ok |-> TRUE,
                   board |-> applyFlips([b EXCEPT ![row][col] = player], flips, 1, player)]

\* OthelloGame.countStones
countStones(b) ==
    [black |-> Cardinality({p \in Rows \X Rows : b[p[1]][p[2]] = BLACK}),
     white |-> Cardinality({p \in Rows \X Rows : b[p[1]][p[2]] = WHITE})]

\* ------------------------------------------------------------------------
\* OthelloAI (src/ai.js): its own copies of the rules, the evaluator, the search
\* ------------------------------------------------------------------------

\* A faulty OthelloAI.isValidPosition: row > 0 in place of row >= 0.
ai_isValidPositionMutant(row, col) ==
    row > 0 /\ row < BOARD_SIZE /\ col >= 0 /\ col < BOARD_SIZE

\* OthelloAI.isValidPosition
ai_isValidPosition(row, col) ==
    row >= 0 /\ row < BOARD_SIZE /\ col >= 0 /\ col < BOARD_SIZE

\* OthelloAI.copyBoard: a new array of new rows holding the same cells.
copyBoard(b) == [row \in Rows |-> [col \in Rows |-> b[row][col]]]

\* The while loop of OthelloAI.getFlips; the value is temp.length.
RECURSIVE ai_scanRun(_, _, _, _, _, _)
ai_scanRun(b, r, c, dr, dc, opponent) ==
    IF ai_isValidPosition(r, c) /\ b[r][c] = opponent
    THEN 1 + ai_scanRun(b, r + dr, c + dc, dr, dc, opponent)
    ELSE 0

\* One iteration of the for loop of OthelloAI.getFlips.
ai_flipsInDirection(b, row, col, player, opponent, d) ==
    LET n == ai_scanRun(b, row + d[1], col + d[2], d[1], d[2], opponent)
        r == row + (n + 1) * d[1]
        c == col + (n + 1) * d[2]
    IN  IF n > 0 /\ ai_isValidPosition(r, c) /\ b[r][c] = player
        THEN [k \in 1 .. n |-> <<row + k * d[1], col + k * d[2]>>]
        ELSE << >>

\* The for loop of OthelloAI.getFlips, from direction i on.
RECURSIVE ai_flipsFrom(_, _, _, _, _, _)
ai_flipsFrom(b, row, col, player, opponent, i) ==
    IF i > Len(ai_directions)
    THEN << >>
    ELSE ai_flipsInDirection(b, row, col, player, opponent, ai_directions[i])
         \o ai_flipsFrom(b, row, col, player, opponent, i + 1)

\* OthelloAI.getFlips: unlike OthelloGame.getFlips it does not look at the cell
\* (row, col) itself.
ai_getFlips(b, row, col, player) ==
    ai_flipsFrom(b, row, col, player, IF player = WHITE THEN BLACK ELSE WHITE, 1)

\* OthelloAI.makeTestMove: place the disc, then flip what getFlips finds on the
\* board that already holds the placed disc.
makeTestMove(b, row, col, player) ==
    LET placed == [b EXCEPT ![row][col] = player]
    IN  applyFlips(placed, ai_getFlips(placed, row, col, player), 1, player)

\* The inner for loop (col) of getValidMovesForBoard.
RECURSIVE ai_validMovesInRow(_, _, _, _)
ai_validMovesInRow(b, player, row, col) ==
    IF col >= BOARD_SIZE
    THEN << >>
    ELSE LET flips == IF b[row][col] = EMPTY THEN ai_getFlips(b, row, col, player) ELSE << >>
         IN  (IF b[row][col] = EMPTY /\ Len(flips) > 0
              THEN << [row |-> row, col |-> col, flips |-> Len(flips)] >>
              ELSE << >>) \o ai_validMovesInRow(b, player, row, col + 1)

\* The outer for loop (row) of getValidMovesForBoard.
RECURSIVE ai_validMovesFrom(_, _, _)
ai_validMovesFrom(b, player, row) ==
    IF row >= BOARD_SIZE
    THEN << >>
    ELSE ai_validMovesInRow(b, player, row, 0) \o ai_validMovesFrom(b, player, row + 1)

\* OthelloAI.getValidMovesForBoard
getValidMovesForBoard(b, player) == ai_validMovesFrom(b, player, 0)

\* The while loop of canPlaceStone: the number of opponent discs passed;
\* hasOpponent is true exactly when it is positive.
RECURSIVE canPlaceScan(_, _, _, _, _, _)
canPlaceScan(b, r, c, dr, dc, opponent) ==
    IF ai_isValidPosition(r, c) /\ b[r][c] = opponent
    THEN 1 + canPlaceScan(b, r + dr, c + dc, dr, dc, opponent)
    ELSE 0

\* A faulty iteration of canPlaceStone: it does not test hasOpponent, so a
\* neighbouring disc of player closes an empty run.
canPlaceInDirectionMutant(b, row, col, player, opponent, d) ==
    LET n == canPlaceScan(b, row + d[1], col + d[2], d[1], d[2], opponent)
        r == row + (n + 1) * d[1]
        c == col + (n + 1) * d[2]
    IN  ai_isValidPosition(r, c) /\ b[r][c] = player

\* One iteration of the for loop of canPlaceStone: whether direction d returns
\* true.
canPlaceInDirection(b, row, col, player, opponent, d) ==
    LET n == canPlaceScan(b, row + d[1], col + d[2], d[1], d[2], opponent)
        r == row + (n + 1) * d[1]
        c == col + (n + 1) * d[2]
    IN  n > 0 /\ ai_isValidPosition(r, c) /\ b[r][c] = player

\* The for loop of canPlaceStone, from direction i on: true at the first
\* direction that closes a run.
RECURSIVE canPlaceFrom(_, _, _, _, _, _)
canPlaceFrom(b, row, col, player, opponent, i) ==
    IF i > Len(canPlace_directions)
    THEN FALSE
    ELSE IF canPlaceInDirection(b, row, col, player, opponent, canPlace_directions[i])
         THEN TRUE
         ELSE canPlaceFrom(b, row, col, player, opponent, i + 1)

\* OthelloAI.canPlaceStone
canPlaceStone(b, row, col, player) ==
    IF b[row][col] # EMPTY
    THEN FALSE
    ELSE canPlaceFrom(b, row, col, player, IF player = WHITE THEN BLACK ELSE WHITE, 1)

\* The inner for loop (col) of countMobility: what row `row` adds to count from
\* column col on.
RECURSIVE countMobilityInRow(_, _, _, _)
countMobilityInRow(b, player, row, col) ==
    IF col >= BOARD_SIZE
    THEN 0
    ELSE (IF b[row][col] = EMPTY /\ canPlaceStone(b, row, col, player) THEN 1 ELSE 0)
         + countMobilityInRow(b, player, row, col + 1)

\* The outer for loop (row) of countMobility.
RECURSIVE countMobilityFrom(_, _, _)
countMobilityFrom(b, player, row) ==
    IF row >= BOARD_SIZE
    THEN 0
    ELSE countMobilityInRow(b, player, row, 0) + countMobilityFrom(b, player, row + 1)

\* OthelloAI.countMobility
countMobility(b, player) == countMobilityFrom(b, player, 0)

\* Step 1 of evaluateBoard, the inner for loop (col): what row `row` adds, from
\* column col on, to score, playerStones and opponentStones.
RECURSIVE positionScanInRow(_, _, _, _, _)
positionScanInRow(b, player, opponent, row, col) ==
    IF col >= BOARD_SIZE
    THEN [score |-> 0, playerStones |-> 0, opponentStones |-> 0]
    ELSE LET rest == positionScanInRow(b, player, opponent, row, col + 1)
         IN  IF b[row][col] = player
             THEN [score |-> rest.score + positionWeights[row + 1][col + 1],
                   playerStones |-> rest.playerStones + 1,
                   opponentStones |-> rest.opponentStones]
             ELSE IF b[row][col] = opponent
             THEN [score |-> rest.score - positionWeights[row + 1][col + 1],
                   playerStones |-> rest.playerStones,
                   opponentStones |-> rest.opponentStones + 1]
             ELSE rest

\* Step 1 of evaluateBoard, the outer for loop (row).
RECURSIVE positionScan(_, _, _, _)
positionScan(b, player, opponent, row) ==
    IF row >= BOARD_SIZE
    THEN [score |-> 0, playerStones |-> 0, opponentStones |-> 0]
    ELSE LET here == positionScanInRow(b, player, opponent, row, 0)
             rest == positionScan(b, player, opponent, row + 1)
         IN  [score |-> here.score + rest.score,
              playerStones |-> here.playerStones + rest.playerStones,
              opponentStones |-> here.opponentStones + rest.opponentStones]

\* A faulty cornerScan: it rewards the player's corners and does not penalise
\* the opponent's.
RECURSIVE cornerScanMutant(_, _, _, _, _)
cornerScanMutant(b, player, opponent, i, score) ==
    IF i > Len(corners)
    THEN score
    ELSE cornerScanMutant(b, player, opponent, i + 1,
             IF b[corners[i][1]][corners[i][2]] = player THEN score + 100 ELSE score)

\* Step 4 of evaluateBoard: the loop over the corners, from corner i on.
RECURSIVE cornerScan(_, _, _, _, _)
cornerScan(b, player, opponent, i, score) ==
    IF i > Len(corners)
    THEN score
    ELSE LET v == b[corners[i][1]][corners[i][2]]
         IN  cornerScan(b, player, opponent, i + 1,
                 IF v = player THEN score + 100
                 ELSE IF v = opponent THEN score - 100
                 ELSE score)

\* gamePhase > 0.7, with gamePhase = totalStones / 64 in IEEE doubles.  n/64 is
\* exact for 0 <= n <= 64 and the double 0.7 lies strictly between 44/64 and
\* 45/64, so the comparison is that of the exact rationals: 10 n > 7 * 64.
phaseAbove(totalStones) == 10 * totalStones > 7 * (BOARD_SIZE * BOARD_SIZE)

\* A faulty phaseBelow: gamePhase < 0.8, so from 45 to 51 discs both terms apply.
phaseBelowMutant(totalStones) == 10 * totalStones < 8 * (BOARD_SIZE * BOARD_SIZE)

\* gamePhase < 0.7
phaseBelow(totalStones) == 10 * totalStones < 7 * (BOARD_SIZE * BOARD_SIZE)

\* OthelloAI.evaluateBoard
evaluateBoard(b, player) ==
    LET opponent == IF player = WHITE THEN BLACK ELSE WHITE
        pos == positionScan(b, player, opponent, 0)
        totalStones == pos.playerStones + pos.opponentStones
        stoneTerm == IF phaseAbove(totalStones)
                     THEN (pos.playerStones - pos.opponentStones) * 10
                     ELSE 0
        mobilityTerm == IF phaseBelow(totalStones)
                        THEN (countMobility(b, player) - countMobility(b, opponent)) * 5
                        ELSE 0
    IN  cornerScan(b, player, opponent, 1, pos.score + stoneTerm + mobilityTerm)

\* Math.max and Math.min on two numbers.
Max(x, y) == IF x >= y THEN x ELSE y

Min(x, y) == IF x <= y THEN x ELSE y

\* The opponent of the root player, as minimax and evaluateBoard compute it.
opponentOf(player) == IF player = WHITE THEN BLACK ELSE WHITE

RECURSIVE minimax(_, _, _, _, _, _)
RECURSIVE maxLoop(_, _, _, _, _, _, _, _, _)
RECURSIVE minLoop(_, _, _, _, _, _, _, _, _)

\* The for loop of the maximizing branch of minimax, from move i on, with the
\* running alpha and maxScore; the break leaves the loop with maxScore.
maxLoop(b, validMoves, i, depth, alpha, beta, maxScore, player, current) ==
    IF i > Len(validMoves)
    THEN maxScore
    ELSE LET move == validMoves[i]
             testBoard == makeTestMove(copyBoard(b), move.row, move.col, current)
             score == minimax(testBoard, depth - 1, FALSE, alpha, beta, player)
             maxScore2 == Max(maxScore, score)
             alpha2 == Max(alpha, score)
         IN  IF beta <= alpha2
             THEN maxScore2
             ELSE maxLoop(b, validMoves, i + 1, depth, alpha2, beta, maxScore2, player, current)

\* A faulty minLoop: it breaks after the first move whatever alpha and beta are.
minLoopMutant(b, validMoves, i, depth, alpha, beta, minScore, player, current) ==
    Min(minScore,
        minimax(makeTestMove(copyBoard(b), validMoves[i].row, validMoves[i].col, current),
                depth - 1, TRUE, alpha, beta, player))

\* The for loop of the minimizing branch of minimax.
minLoop(b, validMoves, i, depth, alpha, beta, minScore, player, current) ==
    IF i > Len(validMoves)
    THEN minScore
    ELSE LET move == validMoves[i]
             testBoard == makeTestMove(copyBoard(b), move.row, move.col, current)
             score == minimax(testBoard, depth - 1, TRUE, alpha, beta, player)
             minScore2 == Min(minScore, score)
             beta2 == Min(beta, score)
         IN  IF beta2 <= alpha
             THEN minScore2
             ELSE minLoop(b, validMoves, i + 1, depth, alpha, beta2, minScore2, player, current)

\* OthelloAI.minimax
minimax(b, depth, maximizing, alpha, beta, player) ==
    IF depth = 0
    THEN evaluateBoard(b, player)
    ELSE LET current == IF maximizing THEN player ELSE opponentOf(player)
             validMoves == getValidMovesForBoard(b, current)
         IN  IF Len(validMoves) = 0
             THEN LET opponent == opponentOf(player)
                      opponentMoves == getValidMovesForBoard(b, opponent)
                  IN  IF Len(opponentMoves) = 0
                      THEN evaluateBoard(b, player)
                      ELSE minimax(b, depth - 1, ~maximizing, alpha, beta, player)
             ELSE IF maximizing
                  THEN maxLoop(b, validMoves, 1, depth, alpha, beta, -Infinity, player, current)
                  ELSE minLoop(b, validMoves, 1, depth, alpha, beta, Infinity, player, current)

\* The null that selectMove returns and bestMove starts as.
NoMove == [row |-> -1, col |-> -1, flips |-> 0]

\* The for loop of selectMinimaxMove, from move i on.
RECURSIVE minimaxRootLoop(_, _, _, _, _, _, _)
minimaxRootLoop(b, validMoves, i, player, alpha, bestMove, bestScore) ==
    IF i > Len(validMoves)
    THEN [move |-> bestMove, score |-> bestScore]
    ELSE LET move == validMoves[i]
             testBoard == makeTestMove(copyBoard(b), move.row, move.col, player)
             score == minimax(testBoard, maxDepth - 1, FALSE, alpha, Infinity, player)
         IN  minimaxRootLoop(b, validMoves, i + 1, player, Max(alpha, score),
                 IF score > bestScore THEN move ELSE bestMove,
                 IF score > bestScore THEN score ELSE bestScore)

\* OthelloAI.selectMinimaxMove, with the bestScore it ends with; gameBoard is
\* game.board, which game.getValidMoves reads.
selectMinimaxMove(b, player, gameBoard) ==
    minimaxRootLoop(b, getValidMoves(gameBoard, player), 1, player, -Infinity, NoMove, -Infinity)

\* A faulty greedyLoop: score >= bestScore, so the last of the best moves wins.
RECURSIVE greedyLoopMutant(_, _, _, _, _, _)
greedyLoopMutant(b, validMoves, i, player, bestMove, bestScore) ==
    IF i > Len(validMoves)
    THEN [move |-> bestMove, score |-> bestScore]
    ELSE LET move == validMoves[i]
             testBoard == makeTestMove(copyBoard(b), move.row, move.col, player)
             score == evaluateBoard(testBoard, player)
         IN  greedyLoopMutant(b, validMoves, i + 1, player,
                 IF score >= bestScore THEN move ELSE bestMove,
                 IF score >= bestScore THEN score ELSE bestScore)

\* The for loop of selectGreedyMove, from move i on.
RECURSIVE greedyLoop(_, _, _, _, _, _)
greedyLoop(b, validMoves, i, player, bestMove, bestScore) ==
    IF i > Len(validMoves)
    THEN [move |-> bestMove, score |-> bestScore]
    ELSE LET move == validMoves[i]
             testBoard == makeTestMove(copyBoard(b), move.row, move.col, player)
             score == evaluateBoard(testBoard, player)
         IN  greedyLoop(b, validMoves, i + 1, player,
                 IF score > bestScore THEN move ELSE bestMove,
                 IF score > bestScore THEN score ELSE bestScore)

\* OthelloAI.selectGreedyMove, with the bestScore it ends with.
selectGreedyMove(b, validMoves, player) ==
    greedyLoop(b, validMoves, 1, player, NoMove, -Infinity)

\* OthelloAI.selectRandomMove; randomIndex is Math.floor(Math.random() * length),
\* a number of 0 .. length-1.
selectRandomMove(validMoves, randomIndex) == validMoves[randomIndex + 1]

\* Math.random() is drawn from the RandomDen values k / RandomDen, 0 <= k <
\* RandomDen, of [0, 1).
RandomDen == 2

\* The values Math.floor(Math.random() * n) then takes where selectMove draws one
\* (tier 1, n > 0 legal moves); at the other tiers Math.random is not called and
\* the index is a placeholder.
RandomRange(diff, n) ==
    IF n = 0 THEN {}
    ELSE IF diff = 1 THEN {(k * n) \div RandomDen : k \in 0 .. (RandomDen - 1)}
    ELSE {0}

\* A faulty selectMove: it returns null when validMoves.length <= 1.
selectMoveMutant(b, player, diff, gameBoard, randomIndex) ==
    LET validMoves == getValidMoves(gameBoard, player)
    IN  IF Len(validMoves) <= 1
        THEN NoMove
        ELSE CASE diff = 1 -> selectRandomMove(validMoves, randomIndex)
               [] diff = 2 -> selectGreedyMove(b, validMoves, player).move
               [] diff = 3 -> selectMinimaxMove(b, player, gameBoard).move
               [] OTHER -> selectGreedyMove(b, validMoves, player).move

\* A faulty selectMove: its default case is the random tier.
selectMoveDefaultMutant(b, player, diff, gameBoard, randomIndex) ==
    LET validMoves == getValidMoves(gameBoard, player)
    IN  IF Len(validMoves) = 0
        THEN NoMove
        ELSE CASE diff = 1 -> selectRandomMove(validMoves, randomIndex)
               [] diff = 2 -> selectGreedyMove(b, validMoves, player).move
               [] diff = 3 -> selectMinimaxMove(b, player, gameBoard).move
               [] OTHER -> selectRandomMove(validMoves, randomIndex)

\* OthelloAI.selectMove(board, player, difficulty, game); gameBoard is
\* game.board and random the value Math.random() * validMoves.length floors to.
selectMove(b, player, diff, gameBoard, randomIndex) ==
    LET validMoves == getValidMoves(gameBoard, player)
    IN  IF Len(validMoves) = 0
        THEN NoMove
        ELSE CASE diff = 1 -> selectRandomMove(validMoves, randomIndex)
               [] diff = 2 -> selectGreedyMove(b, validMoves, player).move
               [] diff = 3 -> selectMinimaxMove(b, player, gameBoard).move
               [] OTHER -> selectGreedyMove(b, validMoves, player).move

\* ------------------------------------------------------------------------
\* Game controller of OthelloGame (src/game.js)
\* ------------------------------------------------------------------------

\* The board newGame builds: all EMPTY, then the four centre discs.
newGameBoard ==
    LET mid == BOARD_SIZE \div 2
        empty == [row \in Rows |-> [col \in Rows |-> EMPTY]]
    IN  [empty EXCEPT ![mid - 1][mid - 1] = WHITE,
                      ![mid - 1][mid] = BLACK,
                      ![mid][mid - 1] = BLACK,
                      ![mid][mid] = WHITE]

\* OthelloGame.copyBoard
game_copyBoard(b) == [row \in Rows |-> [col \in Rows |-> b[row][col]]]

\* The emptyCount loop of checkGameOver.
emptyCount(b) == Cardinality({p \in Rows \X Rows : b[p[1]][p[2]] = EMPTY})

\* A faulty checkGameOver: || in place of &&, so a board where one side must
\* pass ends the game.
checkGameOverMutant(b) ==
    IF Len(getValidMoves(b, BLACK)) = 0 \/ Len(getValidMoves(b, WHITE)) = 0
    THEN TRUE
    ELSE emptyCount(b) = 0

\* OthelloGame.checkGameOver: the value it returns; it calls endGame, which sets
\* gameOver, exactly when it returns true.
checkGameOver(b) ==
    IF Len(getValidMoves(b, BLACK)) = 0 /\ Len(getValidMoves(b, WHITE)) = 0
    THEN TRUE
    ELSE emptyCount(b) = 0

\* The values the difficulty select can hand to parseInt: the three tiers, and 0
\* for every other value.
DifficultyInputs == {0, 1, 2, 3}

\* The values the controller is explored with.  The minimax tier is examined on
\* the playouts below.
ControllerDifficulties == {0, 1, 2}

\* The cells the user clicks: (2,3), a legal first move of Black; (5,5), empty
\* and with nothing to flip at the start, and the move that leaves no White disc
\* once (2,3) is Black; (3,3), occupied from the start.
ClickCells == {<<2, 3>>, <<5, 5>>, <<3, 3>>}

\* Bounds of the exploration: the number of timers pending at once; the number
\* of empty cells up to which the tier-3 search is run on a board; the number
\* of playout lines on which the rules, and on which the searches, are examined.
MaxTimers == 2
MaxSearchEmpties == 6
NumLines == 5
NumSearchLines == 3

\* The number of discs on a board.
discs(b) == BOARD_SIZE * BOARD_SIZE - emptyCount(b)

\* A pending setTimeout callback: its kind and its delay in milliseconds.
Timer(kind, delay) == [kind |-> kind, delay |-> delay]

\* Timers fire in the order of their deadlines, and in the order of their
\* creation when the deadlines are equal.  Without a clock, timer i may fire
\* when no timer created before it has a delay that is not longer: such a timer
\* has an earlier or equal deadline.
mayFire(i) == \A j \in 1 .. (i - 1) : timers[j].delay > timers[i].delay

\* The timers without timer i.
without(i) == [j \in 1 .. (Len(timers) - 1) |-> IF j < i THEN timers[j] ELSE timers[j + 1]]

\* The state after the constructor and init(), which ends in newGame().
Init ==
    /\ board = newGameBoard
    /\ currentPlayer = BLACK
    /\ gameOver = FALSE
    /\ history = << >>
    /\ difficulty = 2
    /\ timers = << >>
    /\ lastEvent = [op |-> "init", ok |-> TRUE]
    /\ line = 0

\* A faulty newGame: it keeps the history.
NewGameMutant ==
    /\ board' = newGameBoard
    /\ currentPlayer' = BLACK
    /\ gameOver' = FALSE
    /\ lastEvent' = [op |-> "newGame", ok |-> TRUE]
    /\ UNCHANGED <<history, difficulty, timers, line>>

\* OthelloGame.newGame (the New Game and Play Again buttons).  It cancels no
\* timer.
NewGame ==
    /\ board' = newGameBoard
    /\ currentPlayer' = BLACK
    /\ gameOver' = FALSE
    /\ history' = << >>
    /\ lastEvent' = [op |-> "newGame", ok |-> TRUE]
    /\ UNCHANGED <<difficulty, timers, line>>

\* The change listener of the difficulty select.
SetDifficulty(d) ==
    /\ difficulty' = d
    /\ UNCHANGED <<board, currentPlayer, gameOver, history, timers, lastEvent, line>>

\* OthelloGame.handleCellClick(row, col).
HandleCellClick(row, col) ==
    IF gameOver \/ currentPlayer # BLACK
    THEN UNCHANGED vars
    ELSE LET previousState == [board |-> game_copyBoard(board), player |-> currentPlayer]
             m == makeMove(board, row, col, BLACK)
             over == checkGameOver(m.board)
         IN  IF m.ok
             THEN /\ Len(timers) < MaxTimers
                  /\ board' = m.board
                  /\ history' = Append(history, previousState)
                  /\ currentPlayer' = WHITE
                  /\ gameOver' = (gameOver \/ over)
                  /\ timers' = IF over
                               THEN timers
                               ELSE Append(timers, Timer("aiStart", 500))
                  /\ lastEvent' = [op |-> "click", ok |-> TRUE]
                  /\ UNCHANGED <<difficulty, line>>
             ELSE /\ board' = m.board
                  /\ lastEvent' = [op |-> "click", ok |-> FALSE]
                  /\ UNCHANGED <<currentPlayer, gameOver, history, difficulty, timers, line>>

\* A faulty undo: it does not reset gameOver.
UndoMutant ==
    IF Len(history) = 0 \/ currentPlayer # BLACK
    THEN UNCHANGED vars
    ELSE /\ board' = history[Len(history)].board
         /\ history' = SubSeq(history, 1, Len(history) - 1)
         /\ currentPlayer' = BLACK
         /\ lastEvent' = [op |-> "undo", ok |-> TRUE]
         /\ UNCHANGED <<gameOver, difficulty, timers, line>>

\* OthelloGame.undo
Undo ==
    IF Len(history) = 0 \/ currentPlayer # BLACK
    THEN UNCHANGED vars
    ELSE /\ board' = history[Len(history)].board
         /\ history' = SubSeq(history, 1, Len(history) - 1)
         /\ currentPlayer' = BLACK
         /\ gameOver' = FALSE
         /\ lastEvent' = [op |-> "undo", ok |-> TRUE]
         /\ UNCHANGED <<difficulty, timers, line>>

\* The callback handleCellClick schedules: executeAIMove up to its setTimeout.
AIStart(i) ==
    /\ i \in 1 .. Len(timers)
    /\ timers[i].kind = "aiStart"
    /\ mayFire(i)
    /\ timers' = IF gameOver THEN without(i) ELSE Append(without(i), Timer("aiThink", 500))
    /\ lastEvent' = [op |-> "aiStart", ok |-> ~gameOver]
    /\ UNCHANGED <<board, currentPlayer, gameOver, history, difficulty, line>>

\* The callback executeAIMove schedules, when White has no legal move: the pass.
\* When Black has a legal move the callback schedules only a redraw (1500 ms),
\* which reads the state and writes the page; like the animation and hint
\* timers it is not kept among the pending timers.
AIPass(i) ==
    /\ i \in 1 .. Len(timers)
    /\ timers[i].kind = "aiThink"
    /\ mayFire(i)
    /\ Len(getValidMoves(board, WHITE)) = 0
    /\ currentPlayer' = BLACK
    /\ timers' = IF Len(getValidMoves(board, BLACK)) = 0
                 THEN Append(without(i), Timer("endGame", 1000))
                 ELSE without(i)
    /\ lastEvent' = [op |-> "aiPass", ok |-> TRUE]
    /\ UNCHANGED <<board, gameOver, history, difficulty, line>>

\* The callback executeAIMove schedules, when White has a legal move: selectMove,
\* makeMove, and the timer that hands the turn back.  randomIndex is what
\* Math.floor(Math.random() * validMoves.length) yields at tier 1.
AIMove(i) ==
    /\ i \in 1 .. Len(timers)
    /\ timers[i].kind = "aiThink"
    /\ mayFire(i)
    /\ \E randomIndex \in RandomRange(difficulty, Len(getValidMoves(board, WHITE))) :
           LET move == selectMove(board, WHITE, difficulty, board, randomIndex)
           IN  IF move # NoMove
               THEN /\ board' = makeMove(board, move.row, move.col, WHITE).board
                    /\ timers' = Append(without(i), Timer("turnReturn", 1000))
               ELSE /\ board' = board
                    /\ timers' = without(i)
    /\ lastEvent' = [op |-> "aiMove", ok |-> TRUE]
    /\ UNCHANGED <<currentPlayer, gameOver, history, difficulty, line>>

\* The callback of the AI-pass path that ends the game: endGame.
EndGameTimer(i) ==
    /\ i \in 1 .. Len(timers)
    /\ timers[i].kind = "endGame"
    /\ mayFire(i)
    /\ gameOver' = TRUE
    /\ timers' = without(i)
    /\ lastEvent' = [op |-> "endGame", ok |-> TRUE]
    /\ UNCHANGED <<board, currentPlayer, history, difficulty, line>>

\* The callback scheduled after the AI's move: hand the turn to Black, then
\* checkGameOver.
TurnReturn(i) ==
    /\ i \in 1 .. Len(timers)
    /\ timers[i].kind = "turnReturn"
    /\ mayFire(i)
    /\ currentPlayer' = BLACK
    /\ gameOver' = (gameOver \/ checkGameOver(board))
    /\ timers' = without(i)
    /\ lastEvent' = [op |-> "turnReturn", ok |-> TRUE]
    /\ UNCHANGED <<board, history, difficulty, line>>

Next ==
    \/ NewGame
    \/ \E d \in ControllerDifficulties : SetDifficulty(d)
    \/ \E p \in ClickCells : HandleCellClick(p[1], p[2])
    \/ Undo
    \/ \E i \in 1 .. Len(timers) : AIStart(i)
    \/ \E i \in 1 .. Len(timers) : AIPass(i)
    \/ \E i \in 1 .. Len(timers) : AIMove(i)
    \/ \E i \in 1 .. Len(timers) : EndGameTimer(i)
    \/ \E i \in 1 .. Len(timers) : TurnReturn(i)

Spec == Init /\ [][Next]_vars

\* ------------------------------------------------------------------------
\* Playouts: whole games played with the rules engine, from the board of
\* newGame to a board where neither side can move.  They supply the boards,
\* of every density, on which the rules, the evaluator and the searches are
\* examined.
\* ------------------------------------------------------------------------

\* The boards the tier-3 search is examined on: the board of newGame and the
\* endgames.
searchable(b) == b = newGameBoard \/ emptyCount(b) <= MaxSearchEmpties

\* The legal move (an index of 0 .. n-1 into getValidMoves) that playout line k
\* plays on board b.  The lines differ in how they end: line 1 ends with an
\* Empty cell that neither side can play on, line 2 has a pass, the others end
\* on a full board.
pick(k, b, n) == ((23 + 4 * k) * discs(b)) % n

InitPlay ==
    /\ board = newGameBoard
    /\ currentPlayer = BLACK
    /\ gameOver = FALSE
    /\ history = << >>
    /\ difficulty = 2
    /\ timers = << >>
    /\ lastEvent = [op |-> "init", ok |-> TRUE]
    /\ line = 0

\* The side to move places a disc with makeMove; the turn goes to the other
\* side and checkGameOver runs, as in handleCellClick and in the turn-return
\* callback of executeAIMove.  The first move of a game chooses the playout
\* line, one of n.
PlayMove(n) ==
    LET validMoves == getValidMoves(board, currentPlayer)
    IN  /\ Len(validMoves) > 0
        /\ \E k \in (IF line = 0 THEN 1 .. n ELSE {line}) :
               LET move == validMoves[pick(k, board, Len(validMoves)) + 1]
                   m == makeMove(board, move.row, move.col, currentPlayer)
               IN  /\ board' = m.board
                   /\ gameOver' = (gameOver \/ checkGameOver(m.board))
                   /\ lastEvent' = [op |-> "makeMove", ok |-> m.ok]
                   /\ line' = k
        /\ currentPlayer' = (IF currentPlayer = BLACK THEN WHITE ELSE BLACK)
        /\ UNCHANGED <<history, difficulty, timers>>

\* The side to move has no legal move and the other side has one: the pass.
PlayPass ==
    /\ Len(getValidMoves(board, currentPlayer)) = 0
    /\ Len(getValidMoves(board, IF currentPlayer = BLACK THEN WHITE ELSE BLACK)) > 0
    /\ currentPlayer' = (IF currentPlayer = BLACK THEN WHITE ELSE BLACK)
    /\ lastEvent' = [op |-> "pass", ok |-> TRUE]
    /\ UNCHANGED <<board, gameOver, history, difficulty, timers, line>>

NextPlay(n) ==
    \/ PlayMove(n)
    \/ PlayPass

\* The playouts on which the rules and the evaluator are examined.
SpecPlay == InitPlay /\ [][NextPlay(NumLines)]_vars

\* The playouts on which the move selection is examined.
SpecSearch == InitPlay /\ [][NextPlay(NumSearchLines)]_vars

\* ------------------------------------------------------------------------
\* The rules of Othello, stated without the loops of the code
\* ------------------------------------------------------------------------

otherSide(player) == IF player = BLACK THEN WHITE ELSE BLACK

Positions == Rows \X Rows

onBoard(p) == p[1] \in Rows /\ p[2] \in Rows

at(b, p) == b[p[1]][p[2]]

\* The cell k steps from p in direction d.
step(p, d, k) == <<p[1] + k * d[1], p[2] + k * d[2]>>

\* The 8 compass directions.
Compass == {d \in {-1, 0, 1} \X {-1, 0, 1} : d # <<0, 0>>}

\* The length of the maximal contiguous run of v discs that starts next to p in
\* direction d.
runLength(b, p, d, v) ==
    Cardinality({m \in 1 .. BOARD_SIZE :
                    \A j \in 1 .. m : onBoard(step(p, d, j)) /\ at(b, step(p, d, j)) = v})

\* The run of opponent discs next to p in direction d, when it is not empty and
\* the cell after it is on the board and holds a disc of player; nothing
\* otherwise.
bracketed(b, p, d, player) ==
    LET n == runLength(b, p, d, otherSide(player))
    IN  IF n > 0 /\ onBoard(step(p, d, n + 1)) /\ at(b, step(p, d, n + 1)) = player
        THEN {step(p, d, k) : k \in 1 .. n}
        ELSE {}

\* The discs a disc of player placed on p flips.
flipSet(b, p, player) ==
    IF at(b, p) # EMPTY THEN {} ELSE UNION {bracketed(b, p, d, player) : d \in Compass}

posOf(move) == <<move.row, move.col>>

rowMajor(move) == move.row * BOARD_SIZE + move.col

count(b, v) == Cardinality({p \in Positions : at(b, p) = v})

Range(seq) == {seq[i] : i \in 1 .. Len(seq)}

\* ------------------------------------------------------------------------
\* Properties
\* ------------------------------------------------------------------------

validMovesExact(b, player) ==
    LET moves == getValidMoves(b, player)
    IN  /\ {posOf(moves[i]) : i \in 1 .. Len(moves)}
             = {p \in Positions : at(b, p) = EMPTY /\ Len(getFlips(b, p[1], p[2], player)) > 0}
        /\ \A i \in 1 .. (Len(moves) - 1) : rowMajor(moves[i]) < rowMajor(moves[i + 1])
        /\ \A i \in 1 .. Len(moves) :
               moves[i].flips = Len(getFlips(b, moves[i].row, moves[i].col, player))

\* C1: on every board and for each side, getValidMoves lists exactly the Empty
\* cells whose getFlips is not empty, in strictly increasing row-major order
\* (hence without duplicates), and the flips field of each move is the length
\* of getFlips for its cell.
C1_ValidMovesExact == \A player \in Sides : validMovesExact(board, player)

\* A board where Black has at least three legal moves that do not all flip the
\* same number of discs, and an Empty cell that is no move.
C1_Witness ==
    LET moves == getValidMoves(board, BLACK)
    IN  /\ Len(moves) >= 3
        /\ \E i, j \in 1 .. Len(moves) : moves[i].flips # moves[j].flips
        /\ \E p \in Positions :
               at(board, p) = EMPTY /\ p \notin {posOf(moves[i]) : i \in 1 .. Len(moves)}

flipsExact(b, p, player) ==
    LET flips == getFlips(b, p[1], p[2], player)
    IN  /\ Range(flips) = flipSet(b, p, player)
        /\ Len(flips) = Cardinality(flipSet(b, p, player))

\* C2: for every cell and side, getFlips is empty when the cell is occupied;
\* otherwise its elements are exactly the union over the 8 directions of the
\* maximal run of opponent discs next to the cell, taken when the run is not
\* empty and is followed on the board by a disc of the side; no cell is listed
\* twice.
C2_FlipsExact == \A p \in Positions : \A player \in Sides : flipsExact(board, p, player)

\* A board with an Empty cell where White flips discs in two directions and a
\* third direction holds a run of Black discs that ends at the edge or at an
\* Empty cell.
C2_Witness ==
    \E p \in Positions :
        /\ at(board, p) = EMPTY
        /\ Cardinality({d \in Compass : bracketed(board, p, d, WHITE) # {}}) >= 2
        /\ \E d \in Compass :
               /\ runLength(board, p, d, BLACK) > 0
               /\ bracketed(board, p, d, WHITE) = {}
        /\ Len(getFlips(board, p[1], p[2], WHITE)) >= 2

\* What a legal move of player changes between board b and board after.
moveEffect(b, after, move, player) ==
    LET flips == flipSet(b, posOf(move), player)
    IN  /\ count(after, player) = count(b, player) + 1 + move.flips
        /\ count(after, otherSide(player)) = count(b, otherSide(player)) - move.flips
        /\ count(after, BLACK) + count(after, WHITE) = count(b, BLACK) + count(b, WHITE) + 1
        /\ {p \in Positions : at(after, p) # at(b, p)} = {posOf(move)} \cup flips

movesEffect(b, player) ==
    LET moves == getValidMoves(b, player)
    IN  \A i \in 1 .. Len(moves) :
            /\ makeMove(b, moves[i].row, moves[i].col, player).ok
            /\ moveEffect(b, makeMove(b, moves[i].row, moves[i].col, player).board,
                          moves[i], player)
            /\ moveEffect(b, makeTestMove(copyBoard(b), moves[i].row, moves[i].col, player),
                          moves[i], player)

\* C3: every legal move, applied with makeMove or with makeTestMove on a copy,
\* adds exactly one disc to the board, gives the mover 1 + flips discs, takes
\* flips discs from the opponent, and changes exactly the placed cell and the
\* cells of the flip set.
C3_MoveEffect == \A player \in Sides : movesEffect(board, player)

\* A board reached by a makeMove on which the side to move has a legal move that
\* flips at least three discs.
C3_Witness ==
    /\ lastEvent = [op |-> "makeMove", ok |-> TRUE]
    /\ \E i \in 1 .. Len(getValidMoves(board, currentPlayer)) :
           getValidMoves(board, currentPlayer)[i].flips >= 3

\* makeMove fails and leaves the board as it is on every occupied cell and on
\* every Empty cell where the side flips nothing.
makeMoveRejects(b) ==
    \A p \in Positions : \A player \in Sides :
        (at(b, p) # EMPTY \/ flipSet(b, p, player) = {}) =>
            makeMove(b, p[1], p[2], player) = [ok |-> FALSE, board |-> b]

\* A step that is a click on p which handleCellClick passes to makeMove, p being
\* occupied or flipping nothing for Black.
clickOnIllegalCell(p) ==
    /\ lastEvent'.op = "click"
    /\ ~gameOver
    /\ currentPlayer = BLACK
    /\ at(board, p) # EMPTY \/ flipSet(board, p, BLACK) = {}
    /\ HandleCellClick(p[1], p[2])

\* C4: makeMove on an occupied cell, or on an Empty cell whose flip set is
\* empty, returns false and leaves the board unchanged; a click rejected this
\* way changes neither the board, nor history, nor currentPlayer, and adds no
\* timer (no AI move is scheduled).
C4_RejectedMove ==
    /\ [](makeMoveRejects(board))
    /\ [][\A p \in ClickCells :
              clickOnIllegalCell(p) =>
                  /\ ~lastEvent'.ok
                  /\ board' = board
                  /\ history' = history
                  /\ currentPlayer' = currentPlayer
                  /\ gameOver' = gameOver
                  /\ timers' = timers]_vars

\* A click rejected by makeMove in the middle of a game: Black is to move, the
\* game is not over, and discs have been played.
C4_Witness ==
    /\ lastEvent = [op |-> "click", ok |-> FALSE]
    /\ ~gameOver
    /\ currentPlayer = BLACK
    /\ Len(history) > 0
    /\ discs(board) > 5

\* C5: evaluateBoard for Black is the negation of evaluateBoard for White.
C5_EvaluateAntisymmetric == evaluateBoard(board, BLACK) = -evaluateBoard(board, WHITE)

\* A board in the mobility phase with an occupied corner, unequal mobilities and
\* a score that is not zero.
C5_Witness ==
    /\ phaseBelow(discs(board))
    /\ \E i \in 1 .. Len(corners) : board[corners[i][1]][corners[i][2]] # EMPTY
    /\ countMobility(board, BLACK) # countMobility(board, WHITE)
    /\ evaluateBoard(board, BLACK) # 0

\* The values Math.floor(Math.random() * n) can take.
randomIndices(n) == IF n = 0 THEN {0} ELSE 0 .. (n - 1)

\* Difficulty values that are none of the three tiers.
OtherDifficulties == {0, 4}

selectMoveSound(b, player, diff, randomIndex) ==
    LET moves == getValidMoves(b, player)
        move == selectMove(b, player, diff, b, randomIndex)
    IN  /\ (move = NoMove) <=> (Len(moves) = 0)
        /\ move # NoMove => move \in Range(moves)

\* C6: for each side and difficulty value (tier 1 with every random index,
\* tier 3 on the searchable boards), selectMove on the game's board returns
\* null exactly when the side has no legal move, and a move it returns is an
\* element of getValidMoves.
C6_SelectMoveSound ==
    \A player \in Sides : \A diff \in DifficultyInputs :
        (diff = 3 => searchable(board)) =>
            \A randomIndex \in (IF diff = 1
                                THEN randomIndices(Len(getValidMoves(board, player)))
                                ELSE {0}) :
                selectMoveSound(board, player, diff, randomIndex)

\* A searchable board where the side to move has no legal move, so that
\* selectMove returns null at every tier, and the other side has at least two,
\* of which every tier returns one.
C6_Witness ==
    /\ searchable(board)
    /\ Len(getValidMoves(board, currentPlayer)) = 0
    /\ Len(getValidMoves(board, otherSide(currentPlayer))) >= 2
    /\ \A diff \in DifficultyInputs :
           /\ selectMove(board, currentPlayer, diff, board, 0) = NoMove
           /\ selectMove(board, otherSide(currentPlayer), diff, board, 1) # NoMove

SetMax(S) == CHOOSE x \in S : \A y \in S : x >= y

SetMin(S) == CHOOSE x \in S : \A y \in S : x <= y

\* Minimax of the given depth without alpha and beta: every child of every node
\* is searched.  The children, their order and the rule for a side without a
\* legal move are those of OthelloAI.minimax.
RECURSIVE fullWidth(_, _, _, _)
fullWidth(b, depth, maximizing, player) ==
    IF depth = 0
    THEN evaluateBoard(b, player)
    ELSE LET current == IF maximizing THEN player ELSE opponentOf(player)
             moves == getValidMovesForBoard(b, current)
             children == {fullWidth(makeTestMove(copyBoard(b), moves[i].row, moves[i].col,
                                                 current),
                                    depth - 1, ~maximizing, player) : i \in 1 .. Len(moves)}
         IN  IF Len(moves) = 0
             THEN IF Len(getValidMovesForBoard(b, opponentOf(player))) = 0
                  THEN evaluateBoard(b, player)
                  ELSE fullWidth(b, depth - 1, ~maximizing, player)
             ELSE IF maximizing THEN SetMax(children) ELSE SetMin(children)

\* The first move, in the order of getValidMoves, whose full-width value is the
\* greatest, with that value.
fullWidthRoot(b, player) ==
    LET moves == getValidMoves(b, player)
        scores == [i \in 1 .. Len(moves) |->
                      fullWidth(makeTestMove(copyBoard(b), moves[i].row, moves[i].col, player),
                                maxDepth - 1, FALSE, player)]
        best == SetMax(Range(scores))
        first == CHOOSE i \in 1 .. Len(moves) :
                     scores[i] = best /\ \A j \in 1 .. (i - 1) : scores[j] < best
    IN  [move |-> moves[first], score |-> best]

\* C7: on the searchable boards, for each side with a legal move, the move and
\* the score selectMinimaxMove ends with are those of the full-width minimax of
\* depth maxDepth.
C7_AlphaBetaExact ==
    \A player \in Sides :
        (searchable(board) /\ Len(getValidMoves(board, player)) > 0) =>
            selectMinimaxMove(board, player, board) = fullWidthRoot(board, player)

\* A searchable board where the search of a later move of the side to move, run
\* with the alpha the moves before it left, is cut off: it returns a value that
\* is not the full-width value of that move.
C7_Witness ==
    /\ searchable(board)
    /\ LET moves == getValidMoves(board, currentPlayer)
           child(i) == makeTestMove(copyBoard(board), moves[i].row, moves[i].col,
                                    currentPlayer)
           alphaBefore(i) == minimaxRootLoop(board, SubSeq(moves, 1, i - 1), 1,
                                             currentPlayer, -Infinity, NoMove,
                                             -Infinity).score
       IN  /\ \E i \in 2 .. Len(moves) :
                  minimax(child(i), maxDepth - 1, FALSE, alphaBefore(i), Infinity,
                          currentPlayer)
                      # fullWidth(child(i), maxDepth - 1, FALSE, currentPlayer)
           /\ selectMinimaxMove(board, currentPlayer, board)
                  = fullWidthRoot(board, currentPlayer)

\* The rule of the claim at the node (b, depth, maximizing) of a search for
\* player: when the side to move has no legal move, the value of the node is
\* evaluateBoard(b, player) if the other side has none either, and otherwise the
\* value of the same board one ply deeper with maximizing flipped.
passRule(b, depth, maximizing, alpha, beta, player) ==
    LET sideToMove == IF maximizing THEN player ELSE otherSide(player)
    IN  (depth > 0 /\ Len(getValidMovesForBoard(b, sideToMove)) = 0) =>
            minimax(b, depth, maximizing, alpha, beta, player)
                = IF Len(getValidMovesForBoard(b, otherSide(sideToMove))) = 0
                  THEN evaluateBoard(b, player)
                  ELSE minimax(b, depth - 1, ~maximizing, alpha, beta, player)

\* C8: at every depth of the search, the board of the playout obeys the pass
\* rule both as a maximizing node of a search for the side to move and as a
\* minimizing node of a search for the side that has just moved.
C8_PassRule ==
    \A depth \in 1 .. (maxDepth - 1) :
        /\ passRule(board, depth, TRUE, -Infinity, Infinity, currentPlayer)
        /\ passRule(board, depth, FALSE, -Infinity, Infinity, otherSide(currentPlayer))

greedyScore(b, move, player) ==
    evaluateBoard(makeMove(b, move.row, move.col, player).board, player)

greedyBest(b, player) ==
    LET moves == getValidMoves(b, player)
        chosen == selectGreedyMove(b, moves, player).move
        scores == [i \in 1 .. Len(moves) |-> greedyScore(b, moves[i], player)]
    IN  \E c \in 1 .. Len(moves) :
            /\ chosen = moves[c]
            /\ \A i \in 1 .. Len(moves) :
                   /\ scores[i] <= scores[c]
                   /\ rowMajor(moves[i]) < rowMajor(chosen) => scores[i] < scores[c]

\* C9: for each side with a legal move, selectGreedyMove returns a legal move
\* whose board after the move has the greatest evaluateBoard for the side, and
\* every legal move before it in row-major order has a smaller one.
C9_GreedyBest ==
    \A player \in Sides : Len(getValidMoves(board, player)) > 0 => greedyBest(board, player)

\* A board where two legal moves of a side reach the greatest score, a third
\* scores less, and selectGreedyMove returns the first of the two.
C9_Witness ==
    \E player \in Sides :
        LET moves == getValidMoves(board, player)
            chosen == selectGreedyMove(board, moves, player).move
            scores == [i \in 1 .. Len(moves) |-> greedyScore(board, moves[i], player)]
        IN  \E c, i, j \in 1 .. Len(moves) :
                /\ chosen = moves[c]
                /\ c < i
                /\ scores[i] = scores[c]
                /\ scores[j] < scores[c]

\* C10: for each side, selectMove with a difficulty that is none of 1, 2, 3
\* returns what selectMove with difficulty 2 returns.
C10_DefaultIsGreedy ==
    \A player \in Sides :
        LET greedy == selectMove(board, player, 2, board, 0)
        IN  \A diff \in OtherDifficulties :
                selectMove(board, player, diff, board, 0) = greedy

\* A board where selectMove with difficulty 0 returns a legal move that is
\* neither the first nor the last of getValidMoves.
C10_Witness ==
    LET moves == getValidMoves(board, currentPlayer)
        move == selectMove(board, currentPlayer, 0, board, 0)
    IN  /\ Len(moves) >= 3
        /\ move \in Range(moves)
        /\ move # moves[1]
        /\ move # moves[Len(moves)]

\* ------------------------------------------------------------------------
\* Boards as objects.  A JavaScript board is an array of 8 row arrays; a write
\* board[r][c] = v changes a row array, and every holder of that row array sees
\* it.  A heap is the sequence of the row arrays that exist, a board reference
\* the sequence of the 8 heap addresses of its rows.  The outer array of a
\* board is never written, so it is a value.
\* ------------------------------------------------------------------------

\* The heap that holds the rows of board b alone, at addresses 1 .. 8.
heapOf(b) == [i \in 1 .. BOARD_SIZE |-> b[i - 1]]

\* The reference to the board whose rows are at addresses 1 .. 8: this.board.
gameRef == [i \in 1 .. BOARD_SIZE |-> i]

\* The cells a board reference shows in heap h.
deref(h, ref) == [row \in Rows |-> h[ref[row + 1]]]

\* The row arrays of heap h that existed when the heap had n rows: the rows
\* allocated later are those of a testBoard that has gone out of scope.
release(h, n) == SubSeq(h, 1, n)

\* A faulty copyBoard, [...board]: a new outer array of the same row arrays.
h_copyBoardMutant(h, ref) == [heap |-> h, ref |-> ref]

\* OthelloAI.copyBoard, board.map(row => [...row]): 8 new row arrays.
h_copyBoard(h, ref) ==
    [heap |-> h \o [i \in 1 .. BOARD_SIZE |-> h[ref[i]]],
     ref |-> [i \in 1 .. BOARD_SIZE |-> Len(h) + i]]

\* The flips.forEach of makeTestMove, writing through the reference.
RECURSIVE h_applyFlips(_, _, _, _, _)
h_applyFlips(h, ref, flips, i, player) ==
    IF i > Len(flips)
    THEN h
    ELSE h_applyFlips([h EXCEPT ![ref[flips[i][1] + 1]][flips[i][2]] = player],
                      ref, flips, i + 1, player)

\* OthelloAI.makeTestMove, writing through the reference; the value is the heap
\* afterwards.
h_makeTestMove(h, ref, row, col, player) ==
    LET placed == [h EXCEPT ![ref[row + 1]][col] = player]
    IN  h_applyFlips(placed, ref, ai_getFlips(deref(placed, ref), row, col, player),
                     1, player)

RECURSIVE h_minimax(_, _, _, _, _, _, _)
RECURSIVE h_maxLoop(_, _, _, _, _, _, _, _, _, _)
RECURSIVE h_minLoop(_, _, _, _, _, _, _, _, _, _)

\* The maximizing branch of minimax on a board reference.
h_maxLoop(h, ref, validMoves, i, depth, alpha, beta, maxScore, player, current) ==
    IF i > Len(validMoves)
    THEN [score |-> maxScore, heap |-> h]
    ELSE LET move == validMoves[i]
             testBoard == h_copyBoard(h, ref)
             moved == h_makeTestMove(testBoard.heap, testBoard.ref, move.row, move.col,
                                     current)
             r == h_minimax(moved, testBoard.ref, depth - 1, FALSE, alpha, beta, player)
             after == release(r.heap, Len(h))
             maxScore2 == Max(maxScore, r.score)
             alpha2 == Max(alpha, r.score)
         IN  IF beta <= alpha2
             THEN [score |-> maxScore2, heap |-> after]
             ELSE h_maxLoop(after, ref, validMoves, i + 1, depth, alpha2, beta, maxScore2,
                            player, current)

\* The minimizing branch of minimax on a board reference.
h_minLoop(h, ref, validMoves, i, depth, alpha, beta, minScore, player, current) ==
    IF i > Len(validMoves)
    THEN [score |-> minScore, heap |-> h]
    ELSE LET move == validMoves[i]
             testBoard == h_copyBoard(h, ref)
             moved == h_makeTestMove(testBoard.heap, testBoard.ref, move.row, move.col,
                                     current)
             r == h_minimax(moved, testBoard.ref, depth - 1, TRUE, alpha, beta, player)
             after == release(r.heap, Len(h))
             minScore2 == Min(minScore, r.score)
             beta2 == Min(beta, r.score)
         IN  IF beta2 <= alpha
             THEN [score |-> minScore2, heap |-> after]
             ELSE h_minLoop(after, ref, validMoves, i + 1, depth, alpha, beta2, minScore2,
                            player, current)

\* OthelloAI.minimax on a board reference: the score and the heap afterwards.
\* getValidMovesForBoard and evaluateBoard only read the board.
h_minimax(h, ref, depth, maximizing, alpha, beta, player) ==
    IF depth = 0
    THEN [score |-> evaluateBoard(deref(h, ref), player), heap |-> h]
    ELSE LET current == IF maximizing THEN player ELSE opponentOf(player)
             validMoves == getValidMovesForBoard(deref(h, ref), current)
         IN  IF Len(validMoves) = 0
             THEN LET opponent == opponentOf(player)
                      opponentMoves == getValidMovesForBoard(deref(h, ref), opponent)
                  IN  IF Len(opponentMoves) = 0
                      THEN [score |-> evaluateBoard(deref(h, ref), player), heap |-> h]
                      ELSE h_minimax(h, ref, depth - 1, ~maximizing, alpha, beta, player)
             ELSE IF maximizing
                  THEN h_maxLoop(h, ref, validMoves, 1, depth, alpha, beta, -Infinity,
                                 player, current)
                  ELSE h_minLoop(h, ref, validMoves, 1, depth, alpha, beta, Infinity,
                                 player, current)

\* The for loop of selectMinimaxMove on a board reference.
RECURSIVE h_minimaxRootLoop(_, _, _, _, _, _, _, _)
h_minimaxRootLoop(h, ref, validMoves, i, player, alpha, bestMove, bestScore) ==
    IF i > Len(validMoves)
    THEN [move |-> bestMove, score |-> bestScore, heap |-> h]
    ELSE LET move == validMoves[i]
             testBoard == h_copyBoard(h, ref)
             moved == h_makeTestMove(testBoard.heap, testBoard.ref, move.row, move.col,
                                     player)
             r == h_minimax(moved, testBoard.ref, maxDepth - 1, FALSE, alpha, Infinity,
                            player)
             after == release(r.heap, Len(h))
         IN  IF r.score > bestScore
             THEN h_minimaxRootLoop(after, ref, validMoves, i + 1, player,
                                    Max(alpha, r.score), move, r.score)
             ELSE h_minimaxRootLoop(after, ref, validMoves, i + 1, player,
                                    Max(alpha, r.score), bestMove, bestScore)

\* OthelloAI.selectMinimaxMove on a board reference; game is the reference
\* game.board.
h_selectMinimaxMove(h, ref, player, game) ==
    h_minimaxRootLoop(h, ref, getValidMoves(deref(h, game), player), 1, player,
                      -Infinity, NoMove, -Infinity)

\* The for loop of selectGreedyMove on a board reference.
RECURSIVE h_greedyLoop(_, _, _, _, _, _, _)
h_greedyLoop(h, ref, validMoves, i, player, bestMove, bestScore) ==
    IF i > Len(validMoves)
    THEN [move |-> bestMove, score |-> bestScore, heap |-> h]
    ELSE LET move == validMoves[i]
             testBoard == h_copyBoard(h, ref)
             moved == h_makeTestMove(testBoard.heap, testBoard.ref, move.row, move.col,
                                     player)
             score == evaluateBoard(deref(moved, testBoard.ref), player)
             after == release(moved, Len(h))
         IN  IF score > bestScore
             THEN h_greedyLoop(after, ref, validMoves, i + 1, player, move, score)
             ELSE h_greedyLoop(after, ref, validMoves, i + 1, player, bestMove, bestScore)

\* OthelloAI.selectGreedyMove on a board reference.
h_selectGreedyMove(h, ref, validMoves, player) ==
    h_greedyLoop(h, ref, validMoves, 1, player, NoMove, -Infinity)

\* OthelloGame.getValidMoves on the reference this.board: the moves and the heap
\* afterwards.  It and getFlips write only to arrays they create.
h_getValidMoves(h, game, player) ==
    [moves |-> getValidMoves(deref(h, game), player), heap |-> h]

\* OthelloAI.selectMove on a board reference: the move and the heap afterwards.
h_selectMove(h, ref, player, diff, game, randomIndex) ==
    LET valid == h_getValidMoves(h, game, player)
        validMoves == valid.moves
    IN  IF Len(validMoves) = 0
        THEN [move |-> NoMove, heap |-> valid.heap]
        ELSE CASE diff = 1 ->
                    [move |-> selectRandomMove(validMoves, randomIndex),
                     heap |-> valid.heap]
               [] diff = 3 ->
                    LET r == h_selectMinimaxMove(valid.heap, ref, player, game)
                    IN  [move |-> r.move, heap |-> r.heap]
               [] OTHER ->
                    LET r == h_selectGreedyMove(valid.heap, ref, validMoves, player)
                    IN  [move |-> r.move, heap |-> r.heap]

\* selectMove, called as executeAIMove calls it (board and game.board the same
\* object), leaves the cells of that board as they were and returns the move
\* that the search on values returns, where no branch can see another's writes.
selectMoveFrame(b, player, diff) ==
    LET r == h_selectMove(heapOf(b), gameRef, player, diff, gameRef, 0)
    IN  /\ r.heap = heapOf(b)
        /\ deref(r.heap, gameRef) = b
        /\ r.move = selectMove(b, player, diff, b, 0)

\* The number of Empty cells up to which the tier-3 search on references is
\* run on a board.
MaxFrameEmpties == 4

\* C11: on every board of the playouts selectMove, at every tier and for each
\* side, and getValidMoves leave every cell of the caller's board unchanged, and
\* every trial move is made on rows of its own (tier 3 on the boards with at
\* most MaxFrameEmpties Empty cells).
C11_CallerBoardUnchanged ==
    \A player \in Sides :
        /\ h_getValidMoves(heapOf(board), gameRef, player).heap = heapOf(board)
        /\ \A diff \in DifficultyInputs :
               (diff = 3 => emptyCount(board) <= MaxFrameEmpties)
                   => selectMoveFrame(board, player, diff)

\* A board with at most MaxFrameEmpties Empty cells where the side to move has
\* at least two legal moves, so the tier-3 and greedy searches make trial moves
\* on sibling branches, and the first trial board differs from the caller's
\* board.
C11_Witness ==
    LET moves == getValidMoves(board, currentPlayer)
    IN  /\ emptyCount(board) <= MaxFrameEmpties
        /\ Len(moves) >= 2
        /\ LET testBoard == h_copyBoard(heapOf(board), gameRef)
               moved == h_makeTestMove(testBoard.heap, testBoard.ref, moves[1].row,
                                       moves[1].col, currentPlayer)
           IN  /\ deref(moved, testBoard.ref) # board
               /\ deref(moved, gameRef) = board
        /\ h_selectMove(heapOf(board), gameRef, currentPlayer, 3, gameRef, 0).move # NoMove

\* The flips.forEach of OthelloGame.makeMove, writing through this.board.
RECURSIVE h_flipStones(_, _, _, _, _)
h_flipStones(h, game, flips, i, player) ==
    IF i > Len(flips)
    THEN h
    ELSE h_flipStones([h EXCEPT ![game[flips[i][1] + 1]][flips[i][2]] = player],
                      game, flips, i + 1, player)

\* OthelloGame.makeMove on the reference this.board: the value returned, the
\* heap afterwards and the reference this.board holds afterwards.  makeMove
\* assigns to this.board[row][col] and to this.board[r][c], never to this.board.
h_makeMove(h, game, row, col, player) ==
    IF deref(h, game)[row][col] # EMPTY
    THEN [ok |-> FALSE, heap |-> h, board |-> game]
    ELSE LET flips == getFlips(deref(h, game), row, col, player)
         IN  IF Len(flips) = 0
             THEN [ok |-> FALSE, heap |-> h, board |-> game]
             ELSE [ok |-> TRUE,
                   heap |-> h_flipStones([h EXCEPT ![game[row + 1]][col] = player],
                                         game, flips, 1, player),
                   board |-> game]

\* C12: for every legal move of the side to move, after makeMove has returned
\* true the holder of the pre-move board object (the reference this.board held
\* before the call) still reads the pre-move cells, and this.board is another
\* object.
C12_AcceptedMoveKeepsOldBoard ==
    LET moves == getValidMoves(board, currentPlayer)
    IN  \A i \in 1 .. Len(moves) :
            LET r == h_makeMove(heapOf(board), gameRef, moves[i].row, moves[i].col,
                                currentPlayer)
            IN  r.ok => (deref(r.heap, gameRef) = board /\ r.board # gameRef)

\* A board is terminal when neither side has a cell to play on, or no cell is
\* Empty.
terminal(b) ==
    \/ \A player \in Sides : \A p \in Positions : flipSet(b, p, player) = {}
    \/ count(b, EMPTY) = 0

\* C13: checkGameOver returns true exactly on the terminal boards, and after
\* each move of a playout, whichever side is then to move, gameOver is set
\* exactly when the board is terminal.
C13_GameOverIffTerminal ==
    /\ checkGameOver(board) = terminal(board)
    /\ gameOver = terminal(board)

\* A game that checkGameOver has ended with Empty cells left on the board.
C13_Witness ==
    /\ gameOver
    /\ lastEvent.op = "makeMove"
    /\ count(board, EMPTY) > 0
    /\ checkGameOver(board)

\* The opening layout: White on (3,3) and (4,4), Black on (3,4) and (4,3), every
\* other cell Empty.
openingLayout(b) ==
    \A p \in Positions :
        at(b, p) = IF p \in {<<3, 3>>, <<4, 4>>} THEN WHITE
                   ELSE IF p \in {<<3, 4>>, <<4, 3>>} THEN BLACK
                   ELSE EMPTY

\* C14: right after newGame the board has the opening layout, currentPlayer is
\* Black, gameOver is false and history is empty.
C14_NewGameResets ==
    lastEvent.op = "newGame" =>
        /\ openingLayout(board)
        /\ currentPlayer = BLACK
        /\ gameOver = FALSE
        /\ history = << >>

\* newGame has been called in the middle of a game, with a callback of the
\* game before still pending.
C14_Witness ==
    /\ lastEvent.op = "newGame"
    /\ Len(timers) > 0
    /\ openingLayout(board)
    /\ history = << >>

\* The 2x2 centre cluster.
centre == {<<3, 3>>, <<3, 4>>, <<4, 3>>, <<4, 4>>}

\* Position p touches position q by a corner.
diagonal(p, q) ==
    /\ p[1] - q[1] \in {-1, 1}
    /\ p[2] - q[2] \in {-1, 1}

\* C15: on the opening layout getValidMoves for Black returns exactly 4 moves,
\* each with flips = 1 and each diagonally adjacent to a cell of the centre
\* cluster.
C15_OpeningMoves ==
    openingLayout(board) =>
        LET moves == getValidMoves(board, BLACK)
        IN  /\ Len(moves) = 4
            /\ Cardinality({posOf(moves[i]) : i \in 1 .. 4}) = 4
            /\ \A i \in 1 .. 4 :
                   /\ moves[i].flips = 1
                   /\ \E q \in centre : diagonal(posOf(moves[i]), q)

\* The opening layout with Black to move, where the four moves are (2,3),
\* (3,2), (4,5) and (5,4).
C15_Witness ==
    /\ openingLayout(board)
    /\ currentPlayer = BLACK
    /\ {posOf(m) : m \in Range(getValidMoves(board, BLACK))}
           = {<<2, 3>>, <<3, 2>>, <<4, 5>>, <<5, 4>>}

\* ------------------------------------------------------------------------
\* Whole games on the controller: Black clicks the move of a playout line,
\* the AI answers through its timers at the difficulty the game starts with.
\* ------------------------------------------------------------------------

\* The number of playout lines Black follows in the games on the controller.
NumGameLines == 8

\* The state after the constructor and init(), and the line Black will follow.
InitGame(n) ==
    /\ board = newGameBoard
    /\ currentPlayer = BLACK
    /\ gameOver = FALSE
    /\ history = << >>
    /\ difficulty = 2
    /\ timers = << >>
    /\ lastEvent = [op |-> "init", ok |-> TRUE]
    /\ line \in 1 .. n

\* Black, to move in a running game and with a legal move, clicks the cell of
\* the move its line picks: handleCellClick on that cell.
ClickLine ==
    LET validMoves == getValidMoves(board, BLACK)
        move == validMoves[pick(line, board, Len(validMoves)) + 1]
    IN  /\ ~gameOver
        /\ currentPlayer = BLACK
        /\ Len(validMoves) > 0
        /\ HandleCellClick(move.row, move.col)

NextGame ==
    \/ ClickLine
    \/ \E i \in 1 .. Len(timers) : AIStart(i)
    \/ \E i \in 1 .. Len(timers) : AIPass(i)
    \/ \E i \in 1 .. Len(timers) : AIMove(i)
    \/ \E i \in 1 .. Len(timers) : TurnReturn(i)

SpecGame == InitGame(NumGameLines) /\ [][NextGame]_vars

\* C16: the controller handles a forced pass of either side, so in no reachable
\* state of a running game with no timer pending is it Black's turn with no
\* legal move for Black.
C16_ForcedPassHandled ==
    ~(/\ ~gameOver
      /\ timers = << >>
      /\ currentPlayer = BLACK
      /\ Len(getValidMoves(board, BLACK)) = 0)

\* The rules of OthelloAI agree with the rules of OthelloGame on board b for
\* player: the same flips, in the same order, on every Empty cell; the same
\* list of moves; and for every legal move the same board after makeTestMove on
\* a copy as after makeMove.
rulesAgree(b, player) ==
    LET moves == getValidMoves(b, player)
    IN  /\ \A p \in Positions :
               at(b, p) = EMPTY =>
                   ai_getFlips(b, p[1], p[2], player) = getFlips(b, p[1], p[2], player)
        /\ getValidMovesForBoard(b, player) = moves
        /\ \A i \in 1 .. Len(moves) :
               LET m == makeMove(b, moves[i].row, moves[i].col, player)
               IN  /\ m.ok
                   /\ makeTestMove(copyBoard(b), moves[i].row, moves[i].col, player)
                          = m.board

\* C17: on every board of the playouts and for both sides, OthelloAI.getFlips,
\* getValidMovesForBoard and makeTestMove agree with OthelloGame.getFlips,
\* getValidMoves and makeMove.
C17_RulesAgree == \A player \in Sides : rulesAgree(board, player)

\* A board where the side to move has a move that flips in more than one
\* direction, one of its flips in row 0, and where the two getFlips differ on an
\* occupied cell, which the claim leaves out.
C17_Witness ==
    LET moves == getValidMoves(board, currentPlayer)
    IN  /\ \E i \in 1 .. Len(moves) :
               /\ Cardinality({d \in Compass :
                      bracketed(board, posOf(moves[i]), d, currentPlayer) # {}}) >= 2
               /\ \E f \in Range(ai_getFlips(board, moves[i].row, moves[i].col,
                                             currentPlayer)) : f[1] = 0
        /\ \E p \in Positions :
               /\ at(board, p) # EMPTY
               /\ ai_getFlips(board, p[1], p[2], currentPlayer)
                      # getFlips(board, p[1], p[2], currentPlayer)
        /\ rulesAgree(board, currentPlayer)

\* canPlaceStone is true on exactly the Empty cells with a non-empty flip set,
\* and countMobility counts the legal moves.
mobilityExact(b, player) ==
    /\ \A p \in Positions :
           canPlaceStone(b, p[1], p[2], player)
               = (at(b, p) = EMPTY /\ flipSet(b, p, player) # {})
    /\ countMobility(b, player) = Len(getValidMovesForBoard(b, player))
    /\ countMobility(b, player)
           = Cardinality({p \in Positions : flipSet(b, p, player) # {}})

\* C18: on every board of the playouts and for both sides, canPlaceStone is
\* true exactly on the Empty cells whose flip set is non-empty, and countMobility
\* equals the number of moves getValidMovesForBoard returns.
C18_MobilityIsMoveCount == \A player \in Sides : mobilityExact(board, player)

\* A board where the two sides have different, positive mobilities and where
\* an Empty cell next to a disc of the side to move is no legal move for it.
C18_Witness ==
    /\ countMobility(board, BLACK) > 0
    /\ countMobility(board, WHITE) > countMobility(board, BLACK)
    /\ \E p \in Positions : \E d \in Compass :
           /\ at(board, p) = EMPTY
           /\ onBoard(step(p, d, 1))
           /\ at(board, step(p, d, 1)) = currentPlayer
           /\ ~canPlaceStone(board, p[1], p[2], currentPlayer)
    /\ mobilityExact(board, currentPlayer)

\* OthelloGame.copyBoard on the reference this.board: 8 new row arrays.
h_game_copyBoard(h, game) ==
    [heap |-> h \o [i \in 1 .. BOARD_SIZE |-> h[game[i]]],
     ref |-> [i \in 1 .. BOARD_SIZE |-> Len(h) + i]]

\* The snapshot handleCellClick takes of board b keeps its cells through the
\* accepted move of Black it is taken for and through every reply of White:
\* both are written into the rows of this.board, which the snapshot does not
\* share.
snapshotKept(b) ==
    LET previousState == h_game_copyBoard(heapOf(b), gameRef)
        moves == getValidMoves(b, BLACK)
    IN  \A i \in 1 .. Len(moves) :
            LET m == h_makeMove(previousState.heap, gameRef, moves[i].row,
                                moves[i].col, BLACK)
                replies == getValidMoves(deref(m.heap, gameRef), WHITE)
            IN  /\ m.ok
                /\ deref(m.heap, previousState.ref) = b
                /\ \A j \in 1 .. Len(replies) :
                       deref(h_makeMove(m.heap, gameRef, replies[j].row,
                                        replies[j].col, WHITE).heap,
                             previousState.ref) = b

\* What a step of the controller does to the history.  An undo step takes the
\* last entry off and makes its board the board, with Black to move and the game
\* running.  A step that adds an entry is an accepted move of Black, and the
\* entry holds the board from before the move.  In every step the entries that
\* stay are unchanged, and no other step than newGame drops one.
historyStep ==
    /\ (lastEvent'.op = "undo" /\ history' # history) =>
           /\ Len(history) > 0
           /\ currentPlayer = BLACK
           /\ board' = history[Len(history)].board
           /\ history' = SubSeq(history, 1, Len(history) - 1)
           /\ currentPlayer' = BLACK
           /\ gameOver' = FALSE
    /\ Len(history') > Len(history) =>
           /\ currentPlayer = BLACK
           /\ ~gameOver
           /\ history' = Append(history, [board |-> board, player |-> BLACK])
           /\ \E p \in Positions :
                  /\ makeMove(board, p[1], p[2], BLACK).ok
                  /\ board' = makeMove(board, p[1], p[2], BLACK).board
    /\ Len(history') < Len(history) => lastEvent'.op \in {"undo", "newGame"}
    /\ lastEvent'.op # "newGame" =>
           \A i \in 1 .. Len(history) : i <= Len(history') => history'[i] = history[i]

\* C19: undo restores the board from before the most recent move of Black that
\* is still in the history, with Black to move and gameOver false, and removes
\* that entry; with an empty history or when it is not Black's turn undo changes
\* nothing; the history grows only by an accepted move of Black; and no later
\* move alters a snapshot.
C19_UndoRoundTrip ==
    /\ []((Len(history) = 0 \/ currentPlayer # BLACK) => ~ENABLED (Undo /\ vars' # vars))
    /\ [](currentPlayer = BLACK => snapshotKept(board))
    /\ [][historyStep]_vars

\* Undo has taken back the second of two accepted moves of Black: the board is
\* the one from before that move, with White's reply to the first move on it.
C19_Witness ==
    /\ lastEvent.op = "undo"
    /\ Len(history) = 1
    /\ discs(board) = 6
    /\ currentPlayer = BLACK
    /\ ~gameOver

\* ------------------------------------------------------------------------
\* The tier-3 search with a log of its calls.  plies is the number of trial
\* moves between the root board and b; log is the set of entries so far.  An
\* entry holds the depth of the frame that makes the call or the evaluation
\* (from), the depth it passes or evaluates at (depth) and the plies of that
\* board.
\* ------------------------------------------------------------------------
LogEntry(kind, from, depth, plies) ==
    [kind |-> kind, from |-> from, depth |-> depth, plies |-> plies]

RECURSIVE t_minimax(_, _, _, _, _, _, _, _)
RECURSIVE t_maxLoop(_, _, _, _, _, _, _, _, _, _, _)
RECURSIVE t_minLoop(_, _, _, _, _, _, _, _, _, _, _)

\* The maximizing branch of minimax, logged.
t_maxLoop(b, validMoves, i, depth, alpha, beta, maxScore, player, current, plies, log) ==
    IF i > Len(validMoves)
    THEN [score |-> maxScore, log |-> log]
    ELSE LET move == validMoves[i]
             testBoard == makeTestMove(copyBoard(b), move.row, move.col, current)
             r == t_minimax(testBoard, depth - 1, FALSE, alpha, beta, player, plies + 1,
                            log \cup {LogEntry("call", depth, depth - 1, plies + 1)})
             maxScore2 == Max(maxScore, r.score)
             alpha2 == Max(alpha, r.score)
         IN  IF beta <= alpha2
             THEN [score |-> maxScore2, log |-> r.log]
             ELSE t_maxLoop(b, validMoves, i + 1, depth, alpha2, beta, maxScore2, player,
                            current, plies, r.log)

\* The minimizing branch of minimax, logged.
t_minLoop(b, validMoves, i, depth, alpha, beta, minScore, player, current, plies, log) ==
    IF i > Len(validMoves)
    THEN [score |-> minScore, log |-> log]
    ELSE LET move == validMoves[i]
             testBoard == makeTestMove(copyBoard(b), move.row, move.col, current)
             r == t_minimax(testBoard, depth - 1, TRUE, alpha, beta, player, plies + 1,
                            log \cup {LogEntry("call", depth, depth - 1, plies + 1)})
             minScore2 == Min(minScore, r.score)
             beta2 == Min(beta, r.score)
         IN  IF beta2 <= alpha
             THEN [score |-> minScore2, log |-> r.log]
             ELSE t_minLoop(b, validMoves, i + 1, depth, alpha, beta2, minScore2, player,
                            current, plies, r.log)

\* A faulty minimax: the call made for a pass keeps the depth.
t_minimaxMutant(b, depth, maximizing, alpha, beta, player, plies, log) ==
    IF depth = 0
    THEN [score |-> evaluateBoard(b, player),
          log |-> log \cup {LogEntry("eval", depth, depth, plies)}]
    ELSE LET current == IF maximizing THEN player ELSE opponentOf(player)
             validMoves == getValidMovesForBoard(b, current)
         IN  IF Len(validMoves) = 0
             THEN IF Len(getValidMovesForBoard(b, opponentOf(player))) = 0
                  THEN [score |-> evaluateBoard(b, player),
                        log |-> log \cup {LogEntry("eval", depth, depth, plies)}]
                  ELSE t_minimax(b, depth, ~maximizing, alpha, beta, player, plies,
                                 log \cup {LogEntry("pass", depth, depth, plies)})
             ELSE IF maximizing
                  THEN t_maxLoop(b, validMoves, 1, depth, alpha, beta, -Infinity, player,
                                 current, plies, log)
                  ELSE t_minLoop(b, validMoves, 1, depth, alpha, beta, Infinity, player,
                                 current, plies, log)

\* OthelloAI.minimax, logged.
t_minimax(b, depth, maximizing, alpha, beta, player, plies, log) ==
    IF depth = 0
    THEN [score |-> evaluateBoard(b, player),
          log |-> log \cup {LogEntry("eval", depth, depth, plies)}]
    ELSE LET current == IF maximizing THEN player ELSE opponentOf(player)
             validMoves == getValidMovesForBoard(b, current)
         IN  IF Len(validMoves) = 0
             THEN LET opponent == opponentOf(player)
                      opponentMoves == getValidMovesForBoard(b, opponent)
                  IN  IF Len(opponentMoves) = 0
                      THEN [score |-> evaluateBoard(b, player),
                            log |-> log \cup {LogEntry("eval", depth, depth, plies)}]
                      ELSE t_minimax(b, depth - 1, ~maximizing, alpha, beta, player, plies,
                                     log \cup {LogEntry("pass", depth, depth - 1, plies)})
             ELSE IF maximizing
                  THEN t_maxLoop(b, validMoves, 1, depth, alpha, beta, -Infinity, player,
                                 current, plies, log)
                  ELSE t_minLoop(b, validMoves, 1, depth, alpha, beta, Infinity, player,
                                 current, plies, log)

\* The for loop of selectMinimaxMove, logged; the calls it makes are the
\* entries of kind "root".
RECURSIVE t_minimaxRootLoop(_, _, _, _, _, _, _, _)
t_minimaxRootLoop(b, validMoves, i, player, alpha, bestMove, bestScore, log) ==
    IF i > Len(validMoves)
    THEN [move |-> bestMove, score |-> bestScore, log |-> log]
    ELSE LET move == validMoves[i]
             testBoard == makeTestMove(copyBoard(b), move.row, move.col, player)
             r == t_minimax(testBoard, maxDepth - 1, FALSE, alpha, Infinity, player, 1,
                            log \cup {LogEntry("root", maxDepth, maxDepth - 1, 1)})
         IN  IF r.score > bestScore
             THEN t_minimaxRootLoop(b, validMoves, i + 1, player, Max(alpha, r.score),
                                    move, r.score, r.log)
             ELSE t_minimaxRootLoop(b, validMoves, i + 1, player, Max(alpha, r.score),
                                    bestMove, bestScore, r.log)

\* OthelloAI.selectMinimaxMove, logged.
t_selectMinimaxMove(b, player, gameBoard) ==
    t_minimaxRootLoop(b, getValidMoves(gameBoard, player), 1, player, -Infinity, NoMove,
                      -Infinity, {})

\* The search of player on b made its calls with depths that go down by one,
\* from 3 at the children of the root to 0, where it evaluates, and evaluated
\* no board more than 4 plies from b; it returned what selectMinimaxMove
\* returns.
depthBounded(b, player) ==
    LET r == t_selectMinimaxMove(b, player, b)
    IN  /\ r.move = selectMinimaxMove(b, player, b).move
        /\ \A e \in r.log :
               /\ e.kind = "root" => (e.depth = 3 /\ e.plies = 1)
               /\ e.kind \in {"call", "pass"} =>
                      (e.depth = e.from - 1 /\ e.from >= 1 /\ e.depth >= 0)
               /\ e.kind = "eval" => (e.depth >= 0 /\ e.plies <= 4)
               /\ e.plies + e.depth <= 4
        /\ (getValidMoves(b, player) # << >>) =>
               \E e \in r.log : e.kind = "eval"

\* C20: the tier-3 search for either side on a searchable board of the playouts
\* ends, every recursive call of minimax (the one for a pass too) has a depth
\* one less than its caller, the children of the root have depth 3, no call is
\* made from depth 0, and no board more than 4 plies from the root is evaluated.
C20_DepthBounded ==
    searchable(board) => \A player \in Sides : depthBounded(board, player)

\* A search that evaluates a board 4 plies from the root at depth 0 and also
\* makes a call for a pass.
C20_Witness ==
    /\ searchable(board)
    /\ LET log == t_selectMinimaxMove(board, currentPlayer, board).log
       IN  /\ \E e \in log : e.kind = "eval" /\ e.plies = 4 /\ e.depth = 0
           /\ \E e \in log : e.kind = "pass"

\* A step that places a disc: an accepted click places one for Black, the AI
\* think callback one for White.
placedFor(side) ==
    /\ board' # board
    /\ lastEvent'.op = (IF side = BLACK THEN "click" ELSE "aiMove")

\* C21: under every interleaving of clicks, New Game and Undo with the pending
\* timer callbacks, a disc is placed for a side only in a state where
\* currentPlayer is that side and gameOver is false.
C21_TurnDiscipline ==
    [][\A side \in Sides :
           placedFor(side) => (currentPlayer = side /\ ~gameOver)]_vars

\* C22: in every reachable state of the controller, gameOver true implies that
\* the board is terminal: neither side has a legal move, or no cell is Empty.
C22_GameOverImpliesTerminal == gameOver => terminal(board)

\* The sum of f over the finite set S.
RECURSIVE sumOver(_, _)
sumOver(S, f) ==
    IF S = {} THEN 0
    ELSE LET x == CHOOSE y \in S : TRUE
         IN  f[x] + sumOver(S \ {x}, f)

\* What a cell adds to the score of player: v for an own disc, -v for a disc of
\* the other side.
signed(b, p, player, v) ==
    IF at(b, p) = player THEN v
    ELSE IF at(b, p) = otherSide(player) THEN -v
    ELSE 0

\* The number of cells player can play on.
mobility(b, player) ==
    Cardinality({p \in Positions : at(b, p) = EMPTY /\ flipSet(b, p, player) # {}})

\* The score of b for player from its parts: position weights, corners, and the
\* disc differential and the mobility differential where they are said to
\* apply.
scoreWith(b, player, discTerm, mobilityTerm) ==
      sumOver(Positions,
              [p \in Positions |->
                  signed(b, p, player, positionWeights[p[1] + 1][p[2] + 1])])
    + sumOver(Range(corners), [p \in Range(corners) |-> signed(b, p, player, 100)])
    + (IF discTerm
       THEN 10 * (count(b, player) - count(b, otherSide(player)))
       ELSE 0)
    + (IF mobilityTerm
       THEN 5 * (mobility(b, player) - mobility(b, otherSide(player)))
       ELSE 0)

\* C23: the disc differential applies exactly from 45 discs on and the mobility
\* differential exactly up to 44 discs, so for every disc count from 0 to 64
\* exactly one of the two applies, and evaluateBoard on every board of the
\* playouts is the score with exactly that one term.
C23_OnePhaseTerm ==
    /\ \A n \in 0 .. (BOARD_SIZE * BOARD_SIZE) :
           /\ phaseAbove(n) <=> n >= 45
           /\ phaseBelow(n) <=> n <= 44
           /\ phaseAbove(n) # phaseBelow(n)
    /\ \A player \in Sides :
           evaluateBoard(board, player)
               = scoreWith(board, player, discs(board) >= 45, discs(board) <= 44)

\* A board with 45 discs, the first count at which the disc differential
\* applies, where both differentials are non-zero, so that the score with both
\* terms or with the other term differs from evaluateBoard.
C23_Witness ==
    /\ discs(board) = 45
    /\ count(board, BLACK) # count(board, WHITE)
    /\ mobility(board, BLACK) # mobility(board, WHITE)
    /\ evaluateBoard(board, BLACK) # scoreWith(board, BLACK, TRUE, TRUE)
    /\ evaluateBoard(board, BLACK) # scoreWith(board, BLACK, FALSE, TRUE)

====
